---- MODULE Spec2Model ----
(***************************************************************************)
(* A model of the analysis pipeline of GenAI_DataAnalysis_Assistant:       *)
(*   - core/storage.py   the result store (sessions, analysis_results)     *)
(*   - core/agent.py     the orchestrator (Agent.run_analysis)             *)
(*   - core/analyzer.py  the chart selector / renderer (DataAnalyzer)      *)
(*   - core/llm_client.py the insight client (LLMClient)                   *)
(* The specifications share the variables: Spec (uploads and runs, one run *)
(* after the other), SpecConcurrent (two runs at once), SpecStore (the     *)
(* store driven by any client), SpecAnalyzer (DataAnalyzer) and SpecLLM    *)
(* (LLMClient).                                                            *)
(***************************************************************************)
EXTENDS Integers, Sequences, FiniteSets, TLC

VARIABLES
    \* ---- core/storage.py: the SQLite database
    sessions,      \* session_id -> status, or NoSession when no row exists
    rows,          \* table analysis_results in insertion (id) order
    now,           \* CURRENT_TIMESTAMP, in whole seconds
    op,            \* the last store operation and what it returned
    \* ---- core/agent.py: Agent objects, one per run
    agent,
    \* ---- core/analyzer.py: one DataAnalyzer object and its environment
    df,            \* self.df: the columns of the DataFrame, in column order
    MAX_CHARTS,    \* config.MAX_CHARTS
    failing,       \* the render steps that raise inside their try block
    charts,        \* self.charts
    calls,         \* how many times analyze() has been called on the object
    lastRun,       \* the _create_* calls of the last analyze(), in order
    returned,      \* the list last handed to a caller
    \* ---- core/llm_client.py: one LLMClient object
    provider,      \* self.provider (config.LLM_PROVIDER)
    available,     \* self.available
    llm            \* the last high-level call: its request outcome and result

storeVars == <<sessions, rows, now, op, agent>>
analyzerVars == <<df, MAX_CHARTS, failing, charts, calls, lastRun, returned>>
llmVars == <<provider, available, llm>>
vars == <<sessions, rows, now, op, agent, df, MAX_CHARTS, failing, charts, calls, lastRun, returned,
          provider, available, llm>>

----------------------------------------------------------------------------
(* Bounds of the model *)

MaxStoreRows == 2     \* rows a client of the store inserts (SpecStore)
MaxRows == 5          \* rows the orchestrator inserts (Spec, SpecConcurrent)
MaxClock == 1         \* seconds the clock advances
MaxNumeric == 4       \* numeric columns of a DataFrame
MaxCategorical == 3   \* object columns of a DataFrame
MaxBudget == 7        \* config.MAX_CHARTS ranges over 0..MaxBudget
MaxCalls == 2         \* analyze() calls on one DataAnalyzer
MaxTextLen == 2       \* characters of a text the endpoint returns

----------------------------------------------------------------------------
(* core/storage.py *)

SessionIds == {"s1", "s2"}
ResultTypes == {"profile", "charts", "insights", "report"}
StatusValues == {"uploaded", "analyzing", "completed", "error"}
NoSession == "absent"
None == "None"

\* get_session: whether fetchone() finds the sessions row of a session id.
SessionExists(s) == sessions[s] # NoSession

\* save_upload's INSERT INTO sessions (...) VALUES (?, ?, ?, 'uploaded').
InsertSession(ss, s) == [ss EXCEPT ![s] = "uploaded"]

\* update_session_status's UPDATE sessions SET status = ? WHERE session_id = ?.
\* Only an existing row is changed.
UpdateStatusRow(ss, s, st) == IF ss[s] = NoSession THEN ss ELSE [ss EXCEPT ![s] = st]

\* A plausible slip: INSERT OR REPLACE keyed on (session_id, result_type).
InsertResultReplace(rs, s, t, d, ts) ==
    LET new == [id |-> Len(rs) + 1, session_id |-> s, result_type |-> t,
                result_data |-> d, created_at |-> ts]
        hit == {i \in 1..Len(rs) : rs[i].session_id = s /\ rs[i].result_type = t}
    IN IF hit = {} THEN Append(rs, new)
       ELSE [i \in 1..Len(rs) |-> IF i \in hit THEN [rs[i] EXCEPT !.result_data = d, !.created_at = ts]
                                   ELSE rs[i]]

\* save_analysis_result's INSERT INTO analysis_results (session_id, result_type,
\* result_data): id is AUTOINCREMENT, created_at defaults to CURRENT_TIMESTAMP.
InsertResult(rs, s, t, d, ts) ==
    Append(rs, [id |-> Len(rs) + 1, session_id |-> s, result_type |-> t,
                result_data |-> d, created_at |-> ts])

\* A slip: WHERE result_type = ?, whatever the session.
MatchingRowsAnySession(rs, s, t) == {i \in 1..Len(rs) : rs[i].result_type = t}

\* WHERE session_id = ? AND result_type = ?
MatchingRows(rs, s, t) == {i \in 1..Len(rs) : rs[i].session_id = s /\ rs[i].result_type = t}

\* A plausible slip: ORDER BY created_at ASC.
SelectOldestFirst(rs, s, t) ==
    {i \in MatchingRows(rs, s, t) :
        \A j \in MatchingRows(rs, s, t) : rs[i].created_at <= rs[j].created_at}

\* ORDER BY created_at DESC LIMIT 1: the rows that can come first.  SQL leaves
\* the order of rows with equal created_at unspecified, so each of them can.
SelectLatest(rs, s, t) ==
    {i \in MatchingRows(rs, s, t) :
        \A j \in MatchingRows(rs, s, t) : rs[j].created_at <= rs[i].created_at}

\* get_analysis_result: the values fetchone() can yield, result[0] or None.
GetAnalysisResultValues(rs, s, t) ==
    IF MatchingRows(rs, s, t) = {} THEN {None}
    ELSE {rs[i].result_data : i \in SelectLatest(rs, s, t)}

NoOp == [name |-> "none"]

\* save_upload (storage.py 56-82), called with a fresh uuid4 session id.
SaveUpload(s) ==
    /\ sessions[s] = NoSession
    /\ sessions' = InsertSession(sessions, s)
    /\ UNCHANGED <<rows, now, op, agent>>
    /\ UNCHANGED <<analyzerVars, llmVars>>

\* The texts a client hands to save_analysis_result.
DataVals == {"d1", "d2"}

\* save_analysis_result (storage.py 118-127) called by any client of the store.
SaveAnalysisResult(s, t, d) ==
    /\ Len(rows) < MaxStoreRows
    /\ rows' = InsertResult(rows, s, t, d, now)
    /\ op' = [name |-> "save_analysis_result", session_id |-> s, result_type |-> t, result_data |-> d]
    /\ UNCHANGED <<sessions, now, agent>>
    /\ UNCHANGED <<analyzerVars, llmVars>>

\* get_analysis_result called by any client of the store (app.py 156-187).
GetAnalysisResult(s, t) ==
    /\ \E v \in GetAnalysisResultValues(rows, s, t) :
          op' = [name |-> "get_analysis_result", session_id |-> s, result_type |-> t, value |-> v]
    /\ UNCHANGED <<sessions, rows, now, agent>>
    /\ UNCHANGED <<analyzerVars, llmVars>>

\* The wall clock reaches the next second.
Tick ==
    /\ now < MaxClock
    /\ now' = now + 1
    /\ op' = NoOp
    /\ UNCHANGED <<sessions, rows, agent>>
    /\ UNCHANGED <<analyzerVars, llmVars>>

----------------------------------------------------------------------------
(* core/analyzer.py *)

\* A column is [name, dtype, nunique]; a name is a sequence of characters.
Dtypes == {"number", "object", "bool"}
NuniqueVals == {3, 15, 16}

HIST_COLS == 3        \* numeric_cols[:3]
BAR_COLS == 2         \* categorical_cols[:2]
MAX_CATEGORIES == 15  \* nunique() <= 15
HEATMAP_MIN_COLS == 2 \* len(numeric_cols) >= 2
BOX_MIN_COLS == 1     \* len(numeric_cols) >= 1
BOX_COLS == 3         \* numeric_cols[:3]

DigitStr == <<"1", "2", "3", "4", "5", "6", "7", "8", "9", "10", "11", "12">>

\* Column names of a DataFrame: "c1", "c2", ..., or, in the spaced style,
\* "a b" and "a_b" for its first two columns.
ColName(style, i) ==
    IF style = "spaced" /\ i = 1 THEN <<"a", " ", "b">>
    ELSE IF style = "spaced" /\ i = 2 THEN <<"a", "_", "b">>
    ELSE <<"c", DigitStr[i]>>

\* A DataFrame of n numeric columns, then one object column per entry of cats
\* (its number of distinct values), then a bool column if other.
BuildDf(n, cats, other, style) ==
    [i \in 1..(n + Len(cats) + (IF other THEN 1 ELSE 0)) |->
        IF i <= n THEN [name |-> ColName(style, i), dtype |-> "number", nunique |-> 16]
        ELSE IF i <= n + Len(cats)
             THEN [name |-> ColName(style, i), dtype |-> "object", nunique |-> cats[i - n]]
             ELSE [name |-> ColName(style, i), dtype |-> "bool", nunique |-> 2]]

IsNumber(c) == c.dtype = "number"
IsObject(c) == c.dtype = "object"
IsNotNumber(c) == c.dtype # "number"

\* df.select_dtypes(include=[np.number]).columns.tolist()
NumericCols(d) == SelectSeq(d, IsNumber)

\* df.select_dtypes(include=['object']).columns.tolist()
CategoricalCols(d) == SelectSeq(d, IsObject)

\* cols[:n]
Take(cols, n) == SubSeq(cols, 1, IF Len(cols) < n THEN Len(cols) ELSE n)

\* column.replace(" ", "_")
ReplaceSpaces(name) == [i \in 1..Len(name) |-> IF name[i] = " " THEN "_" ELSE name[i]]

\* f'hist_{column.replace(" ", "_")}.png'
HistFilename(name) == <<"hist_">> \o ReplaceSpaces(name) \o <<".png">>
\* f'bar_{column.replace(" ", "_")}.png'
BarFilename(name) == <<"bar_">> \o ReplaceSpaces(name) \o <<".png">>
HeatmapFilename == <<"correlation_heatmap.png">>
BoxplotFilename == <<"boxplot_comparison.png">>

\* The render steps of one analyze() call.
HistSlot(k) == <<"hist1", "hist2", "hist3">>[k]
BarSlot(k) == <<"bar1", "bar2">>[k]
ChartSlots == {HistSlot(k) : k \in 1..HIST_COLS} \cup {BarSlot(k) : k \in 1..BAR_COLS}
                \cup {"heatmap", "boxplot"}

\* A _create_* call: the try block either appends the descriptor to
\* self.charts or raises, and the except clause then only prints.
Render(st, slot, type, cols, filename, bad) ==
    [st EXCEPT !.charts = IF slot \in bad THEN @
                          ELSE Append(@, [type |-> type, columns |-> cols, filename |-> filename]),
               !.attempts = Append(@, [slot |-> slot, type |-> type, columns |-> cols,
                                       filename |-> filename, ok |-> slot \notin bad])]

\* A plausible slip: count only the charts that were rendered.
CountRenderedOnly(st, before) ==
    [st EXCEPT !.chart_count = @ + (Len(st.charts) - Len(before.charts))]

\* chart_count += 1 after a _create_* call (analyzer.py 41, 49, 54, 59).
CountChart(st, before) == [st EXCEPT !.chart_count = @ + 1]

\* chart_count < config.MAX_CHARTS (the loops test its negation and break).
BudgetLeft(st, max) == st.chart_count < max

\* self.df[col].nunique() <= 15
FewCategories(c) == c.nunique <= MAX_CATEGORIES

\* analyzer.py 37-41: for col in numeric_cols[:3].
RECURSIVE HistLoop(_, _, _, _, _)
HistLoop(cols, k, st, max, bad) ==
    IF k > Len(cols) \/ ~BudgetLeft(st, max) THEN st
    ELSE HistLoop(cols, k + 1,
                  CountChart(Render(st, HistSlot(k), "histogram", <<cols[k].name>>,
                                    HistFilename(cols[k].name), bad), st),
                  max, bad)

\* A plausible slip: a column of too many categories is replaced by the next
\* one, the loop running over all object columns until two are charted.
RECURSIVE BarLoopSubstituting(_, _, _, _, _)
BarLoopSubstituting(cols, k, st, max, bad) ==
    LET done == Len(SelectSeq(st.attempts, LAMBDA a : a.type = "bar_chart"))
    IN IF k > Len(cols) \/ ~BudgetLeft(st, max) \/ done >= BAR_COLS THEN st
       ELSE IF FewCategories(cols[k])
            THEN BarLoopSubstituting(cols, k + 1,
                         CountChart(Render(st, BarSlot(done + 1), "bar_chart", <<cols[k].name>>,
                                           BarFilename(cols[k].name), bad), st),
                         max, bad)
            ELSE BarLoopSubstituting(cols, k + 1, st, max, bad)

\* analyzer.py 44-49: for col in categorical_cols[:2].
RECURSIVE BarLoop(_, _, _, _, _)
BarLoop(cols, k, st, max, bad) ==
    IF k > Len(cols) \/ ~BudgetLeft(st, max) THEN st
    ELSE IF FewCategories(cols[k])
         THEN BarLoop(cols, k + 1,
                      CountChart(Render(st, BarSlot(k), "bar_chart", <<cols[k].name>>,
                                        BarFilename(cols[k].name), bad), st),
                      max, bad)
         ELSE BarLoop(cols, k + 1, st, max, bad)

ColNames(cols) == [i \in 1..Len(cols) |-> cols[i].name]

\* A plausible slip: the heatmap is drawn from one numeric column on.
HeatmapStepOneColumn(numeric, st, max, bad) ==
    IF Len(numeric) >= 1 /\ BudgetLeft(st, max)
    THEN CountChart(Render(st, "heatmap", "heatmap", ColNames(numeric), HeatmapFilename, bad), st)
    ELSE st

\* analyzer.py 52-54
HeatmapStep(numeric, st, max, bad) ==
    IF Len(numeric) >= HEATMAP_MIN_COLS /\ BudgetLeft(st, max)
    THEN CountChart(Render(st, "heatmap", "heatmap", ColNames(numeric), HeatmapFilename, bad), st)
    ELSE st

\* analyzer.py 57-59
BoxplotStep(numeric, st, max, bad) ==
    IF Len(numeric) >= BOX_MIN_COLS /\ BudgetLeft(st, max)
    THEN CountChart(Render(st, "boxplot", "boxplot", ColNames(Take(numeric, BOX_COLS)),
                           BoxplotFilename, bad), st)
    ELSE st

\* A plausible slip: the heatmap step placed before the bar charts.
AnalyzeRunHeatmapFirst(d, held, max, bad) ==
    LET numeric == NumericCols(d)
        categorical == CategoricalCols(d)
        s0 == [chart_count |-> 0, charts |-> held, attempts |-> <<>>]
        s1 == HistLoop(Take(numeric, HIST_COLS), 1, s0, max, bad)
        s2 == HeatmapStep(numeric, s1, max, bad)
        s3 == BarLoop(Take(categorical, BAR_COLS), 1, s2, max, bad)
    IN BoxplotStep(numeric, s3, max, bad)

\* analyze() (analyzer.py 27-61) on an object whose self.charts is held: the
\* local chart_count starts at 0, self.charts is appended to.
AnalyzeRun(d, held, max, bad) ==
    LET numeric == NumericCols(d)
        categorical == CategoricalCols(d)
        s0 == [chart_count |-> 0, charts |-> held, attempts |-> <<>>]
        s1 == HistLoop(Take(numeric, HIST_COLS), 1, s0, max, bad)
        s2 == BarLoop(Take(categorical, BAR_COLS), 1, s1, max, bad)
        s3 == HeatmapStep(numeric, s2, max, bad)
    IN BoxplotStep(numeric, s3, max, bad)

NoRun == [start |-> 0, attempts |-> <<>>]
NothingReturned == [by |-> "none", list |-> <<>>]

\* analyze(): runs the pipeline and returns self.charts.
Analyze ==
    /\ calls < MaxCalls
    /\ LET st == AnalyzeRun(df, charts, MAX_CHARTS, failing)
       IN /\ charts' = st.charts
          /\ lastRun' = [start |-> Len(charts), attempts |-> st.attempts]
          /\ returned' = [by |-> "analyze", list |-> st.charts]
    /\ calls' = calls + 1
    /\ UNCHANGED <<df, MAX_CHARTS, failing>>
    /\ UNCHANGED <<storeVars, llmVars>>

\* get_charts_info(): returns self.charts.
GetChartsInfo ==
    /\ returned' = [by |-> "get_charts_info", list |-> charts]
    /\ UNCHANGED <<df, MAX_CHARTS, failing, charts, calls, lastRun>>
    /\ UNCHANGED <<storeVars, llmVars>>

\* The analyzer is not part of the default pipeline (agent.py 70).
NoAnalyzer ==
    /\ df = <<>>
    /\ MAX_CHARTS = 0
    /\ failing = {}
    /\ charts = <<>>
    /\ calls = 0
    /\ lastRun = NoRun
    /\ returned = NothingReturned

----------------------------------------------------------------------------
(* core/llm_client.py *)

\* Python values that cross the client: None, a number, a str (a sequence of
\* characters).  "missing" is a key that the JSON body does not have.
PyNone == [kind |-> "null", num |-> 0, chars |-> <<>>]
PyMissing == [kind |-> "missing", num |-> 0, chars |-> <<>>]
PyNum(n) == [kind |-> "num", num |-> n, chars |-> <<>>]
PyStr(c) == [kind |-> "str", num |-> 0, chars |-> c]

\* bool(v): how `response if response else ...` reads a value.
Truthy(v) ==
    CASE v.kind = "str" -> v.chars # <<>>
      [] v.kind = "num" -> v.num # 0
      [] OTHER -> FALSE

RECURSIVE LStrip(_)
LStrip(c) == IF c # <<>> /\ Head(c) = " " THEN LStrip(Tail(c)) ELSE c
RECURSIVE RStrip(_)
RStrip(c) == IF c # <<>> /\ c[Len(c)] = " " THEN RStrip(SubSeq(c, 1, Len(c) - 1)) ELSE c
\* str.strip()
Strip(c) == RStrip(LStrip(c))

Providers == {"ollama", "openai"}

Texts == UNION {[1..k -> {" ", "x"}] : k \in 0..MaxTextLen}

\* What the text field of a JSON body can hold.
JsonValues == {PyMissing, PyNone, PyNum(0), PyNum(5)} \cup {PyStr(c) : c \in Texts}

\* The outcomes of requests.post: an exception, or a response with a status
\* code and a body (invalid JSON, or an object with the text field as given:
\* "response" for Ollama, choices[0].message.content for the chat API).
NoBody == [json |-> "invalid", text |-> PyMissing]
Outcomes ==
    {[kind |-> k, code |-> 0, body |-> NoBody] : k \in {"timeout", "connection_error"}}
      \cup {[kind |-> "response", code |-> 500, body |-> NoBody]}
      \cup {[kind |-> "response", code |-> 200, body |-> NoBody]}
      \cup {[kind |-> "response", code |-> 200, body |-> [json |-> "object", text |-> v]] :
               v \in JsonValues}

\* _make_request, Ollama branch (llm_client.py 38-56).
MakeRequestOllama(o) ==
    IF o.kind # "response" THEN PyNone               \* raised, caught at 103-105
    ELSE IF o.code # 200 THEN PyNone
    ELSE IF o.body.json = "invalid" THEN PyNone      \* response.json() raises
    ELSE IF o.body.text.kind = "missing" THEN PyStr(Strip(<<>>))   \* .get("response", "")
    ELSE IF o.body.text.kind = "str" THEN PyStr(Strip(o.body.text.chars))
    ELSE PyNone                                      \* .strip() raises AttributeError

\* _make_request, OpenAI-compatible branch (llm_client.py 61-101).
MakeRequestOpenAI(o) ==
    IF o.kind # "response" THEN PyNone               \* raised, caught at 103-105
    ELSE IF o.code # 200 THEN PyNone
    ELSE IF o.body.json = "invalid" THEN PyNone      \* response.json() raises
    ELSE IF o.body.text.kind = "missing" THEN PyNone \* KeyError / IndexError
    ELSE o.body.text                                 \* returned as it is

\* _make_request (llm_client.py 30-105)
MakeRequest(p, o) == IF p = "ollama" THEN MakeRequestOllama(o) ELSE MakeRequestOpenAI(o)

LLMFunctions == {"generate_insights", "generate_executive_summary",
                 "generate_recommendations", "explain_chart"}

\* The chart descriptions handed to explain_chart.
ChartDescriptions == {<<"h", "i", "s", "t">>, <<"b", "a", "r">>}
NoArg == <<>>

\* _fallback_insights, _fallback_summary, _fallback_recommendations and the
\* f"This chart shows: {chart_description}" of explain_chart.
Fallback(fn, arg) ==
    CASE fn = "generate_insights" -> PyStr(<<"**Insights (Basic Analysis):** ...">>)
      [] fn = "generate_executive_summary" -> PyStr(<<"This report presents an analysis ...">>)
      [] fn = "generate_recommendations" -> PyStr(<<"1. Review the statistical summaries ...">>)
      [] fn = "explain_chart" -> PyStr(<<"This chart shows: ">> \o arg)

\* A slip: the response is returned without the `if response` test.
GenerateNoFallback(fn, arg, p, avail, o) ==
    IF ~avail THEN [result |-> Fallback(fn, arg), requests |-> 0]
    ELSE [result |-> MakeRequest(p, o), requests |-> 1]

\* A slip: a second request when the first one yields nothing (the second
\* ends like the first).
GenerateWithRetry(fn, arg, p, avail, o) ==
    IF ~avail THEN [result |-> Fallback(fn, arg), requests |-> 0]
    ELSE LET response == MakeRequest(p, o)
         IN IF Truthy(response) THEN [result |-> response, requests |-> 1]
            ELSE [result |-> Fallback(fn, arg), requests |-> 2]

\* generate_insights, generate_executive_summary, generate_recommendations,
\* explain_chart: [result, requests] for the request outcome o.
Generate(fn, arg, p, avail, o) ==
    IF ~avail THEN [result |-> Fallback(fn, arg), requests |-> 0]
    ELSE LET response == MakeRequest(p, o)
         IN [result |-> IF Truthy(response) THEN response ELSE Fallback(fn, arg),
             requests |-> 1]

NoCall == [fn |-> "none", arg |-> NoArg, outcome |-> [kind |-> "none", code |-> 0, body |-> NoBody],
           result |-> PyNone, requests |-> 0]

\* LLMClient() (llm_client.py 9-15), not yet called.
NoLLM ==
    /\ provider = "ollama"
    /\ available = TRUE
    /\ llm = NoCall

\* One call of a high-level function with its request outcome.
Call(fn, arg, o) ==
    /\ LET g == Generate(fn, arg, provider, available, o)
       IN llm' = [fn |-> fn, arg |-> arg, outcome |-> o, result |-> g.result, requests |-> g.requests]
    /\ UNCHANGED <<provider, available>>
    /\ UNCHANGED <<storeVars, analyzerVars>>

GenerateInsights == \E o \in Outcomes : Call("generate_insights", NoArg, o)
GenerateExecutiveSummary == \E o \in Outcomes : Call("generate_executive_summary", NoArg, o)
GenerateRecommendations == \E o \in Outcomes : Call("generate_recommendations", NoArg, o)
ExplainChart == \E d \in ChartDescriptions, o \in Outcomes : Call("explain_chart", d, o)

----------------------------------------------------------------------------
(* core/agent.py *)

Runs == {"run1"}
FallbackInsights == "fallback_insights"
LLMText == "llm_text"

\* What load_dataframe returns at STEP 1: None, or a DataFrame, of which the
\* profile reads df.shape and df.isnull().sum().sum().
NoFrame == [frame |-> FALSE, total_rows |-> 0, total_columns |-> 0, missing_cells |-> 0]
Frame(r, c, m) == [frame |-> TRUE, total_rows |-> r, total_columns |-> c, missing_cells |-> m]

\* The datasets of the uploads: a sheet without cells, a header without rows,
\* the dataset of the scenario (100 rows, 5 columns, 10 missing cells), and
\* small frames whose scores are 0, 100, a repeating decimal and exact halves
\* of the second decimal.
DataFrames ==
    {Frame(0, 0, 0), Frame(0, 5, 0), Frame(100, 5, 10), Frame(1, 1, 0), Frame(2, 1, 2),
     Frame(1, 3, 1), Frame(4, 8, 1), Frame(4, 8, 31)}

\* df.empty: an axis of length 0.
IsEmpty(d) == d.total_rows = 0 \/ d.total_columns = 0

\* round(x, 2) of the float num / den / 100, in hundredths: Python rounds to
\* the nearest, and an exact half to the even digit.
RoundHalfEven(num, den) ==
    LET q == num \div den
        rem == num % den
    IN IF 2 * rem < den THEN q
       ELSE IF 2 * rem > den THEN q + 1
       ELSE IF q % 2 = 0 THEN q ELSE q + 1

\* A slip: the score of the missing cells instead of the present ones.
CompletenessScoreOfMissing(total_rows, total_columns, missing_cells) ==
    LET total_cells == total_rows * total_columns
    IN IF total_cells > 0 THEN RoundHalfEven(missing_cells * 10000, total_cells) ELSE 0

\* completeness_score (agent.py 44-50), in hundredths of a percent:
\* round((1 - (missing_cells / total_cells)) * 100, 2) if total_cells > 0 else 0
CompletenessScore(total_rows, total_columns, missing_cells) ==
    LET total_cells == total_rows * total_columns
    IN IF total_cells > 0
       THEN RoundHalfEven((total_cells - missing_cells) * 10000, total_cells)
       ELSE 0

\* The profile dict of STEP 2 (agent.py 52-65), without the column lists.
NoProfile == [computed |-> FALSE, total_rows |-> 0, total_columns |-> 0, missing_cells |-> 0,
              completeness_score |-> 0]
Profile(d) ==
    [computed |-> TRUE, total_rows |-> d.total_rows, total_columns |-> d.total_columns,
     missing_cells |-> d.missing_cells,
     completeness_score |-> CompletenessScore(d.total_rows, d.total_columns, d.missing_cells)]

\* An Agent object and the run_analysis call on it.  loads and requests count
\* the load_dataframe calls and the requests of self.llm to the endpoint;
\* endpoint is how the request ended; error is what raised into the handler
\* at agent.py 122-124.
IdleAgent ==
    [pc |-> "idle", session_id |-> None, profile |-> NoProfile,
     insights |-> None, endpoint |-> "none", loads |-> 0, requests |-> 0,
     error |-> "none", ret |-> None]

\* What run_analysis hands to save_analysis_result at each of its four saves.
AgentResultData(a, t) ==
    CASE t = "profile" -> "profile_json"
      [] t = "charts" -> "[]"
      [] t = "insights" -> a.insights
      [] t = "report" -> IF a.insights = FallbackInsights THEN "report_with_fallback"
                         ELSE "report_with_llm_text"

SaveSteps == <<"profile", "charts", "insights", "report">>
SavePc(k) == <<"save_profile", "save_charts", "save_insights", "save_report">>[k]

\* Agent(session_id): __init__ reads the session row; a missing row raises
\* before run_analysis (app.py 124-125).
AgentInit(r, s) ==
    /\ agent[r].pc = "idle"
    /\ SessionExists(s)
    /\ agent' = [agent EXCEPT ![r] = [IdleAgent EXCEPT !.pc = "load", !.session_id = s]]
    /\ UNCHANGED <<sessions, rows, now, op>>
    /\ UNCHANGED <<analyzerVars, llmVars>>

\* A slip: an empty frame is profiled like any other.
AgentLoadIgnoresEmpty(r) ==
    /\ agent[r].pc = "load"
    /\ \E d \in DataFrames \cup {NoFrame} :
          agent' = [agent EXCEPT ![r] =
                      IF d.frame
                      THEN [@ EXCEPT !.pc = "insights", !.loads = @ + 1, !.profile = Profile(d)]
                      ELSE [@ EXCEPT !.pc = "done", !.loads = @ + 1, !.error = "load", !.ret = "False"]]
    /\ UNCHANGED <<sessions, rows, now, op>>
    /\ UNCHANGED <<analyzerVars, llmVars>>

\* STEP 1: load_dataframe; None or an empty frame raises ValueError, which the
\* handler turns into False.  STEP 2: the profile of the frame.
AgentLoad(r) ==
    /\ agent[r].pc = "load"
    /\ \E d \in DataFrames \cup {NoFrame} :
          agent' = [agent EXCEPT ![r] =
                      IF d.frame /\ ~IsEmpty(d)
                      THEN [@ EXCEPT !.pc = "insights", !.loads = @ + 1, !.profile = Profile(d)]
                      ELSE [@ EXCEPT !.pc = "done", !.loads = @ + 1, !.error = "load", !.ret = "False"]]
    /\ UNCHANGED <<sessions, rows, now, op>>
    /\ UNCHANGED <<analyzerVars, llmVars>>

\* str(result_data) of the text generate_insights returned, as the store
\* keeps it: the fixed fallback text, or a text of the model.
InsightsText(v) == IF v = Fallback("generate_insights", NoArg) THEN FallbackInsights ELSE LLMText

\* How the request of generate_insights ended: no request, an exception or a
\* status other than 200, or a 200 response.
EndpointOf(g, o) ==
    IF g.requests = 0 THEN "none"
    ELSE IF o.kind # "response" \/ o.code # 200 THEN "failed"
    ELSE "answered"

\* STEPS 3-5: data_summary = json.dumps(profile), generate_insights on the
\* Agent's own LLMClient (provider and available as configured), report
\* assembly.  From here on the profile is the text the saves carry.
AgentInsights(r) ==
    /\ agent[r].pc = "insights"
    /\ \E o \in Outcomes :
          LET g == Generate("generate_insights", NoArg, provider, available, o)
          IN agent' = [agent EXCEPT ![r] =
                         [@ EXCEPT !.pc = SavePc(1), !.profile = NoProfile,
                                   !.insights = InsightsText(g.result),
                                   !.endpoint = EndpointOf(g, o),
                                   !.requests = @ + g.requests]]
    /\ UNCHANGED <<sessions, rows, now, op>>
    /\ UNCHANGED <<analyzerVars, llmVars>>

\* A slip: the run goes on to mark the session after the insights are saved.
AgentSaveSkipsReport(r) ==
    /\ \E k \in 1..3 :
          /\ agent[r].pc = SavePc(k)
          /\ Len(rows) < MaxRows
          /\ rows' = InsertResult(rows, agent[r].session_id, SaveSteps[k],
                                  AgentResultData(agent[r], SaveSteps[k]), now)
          /\ agent' = [agent EXCEPT ![r] = [@ EXCEPT !.pc = IF k < 3 THEN SavePc(k + 1) ELSE "status"]]
    /\ UNCHANGED <<sessions, now, op>>
    /\ UNCHANGED <<analyzerVars, llmVars>>

\* STEP 6: the four save_analysis_result calls, in order.
AgentSave(r) ==
    /\ \E k \in 1..4 :
          /\ agent[r].pc = SavePc(k)
          /\ Len(rows) < MaxRows
          /\ rows' = InsertResult(rows, agent[r].session_id, SaveSteps[k],
                                  AgentResultData(agent[r], SaveSteps[k]), now)
          /\ agent' = [agent EXCEPT ![r] = [@ EXCEPT !.pc = IF k < 4 THEN SavePc(k + 1) ELSE "status"]]
    /\ UNCHANGED <<sessions, now, op>>
    /\ UNCHANGED <<analyzerVars, llmVars>>

\* STEP 7: update_session_status(session_id, "completed"); return True.
AgentComplete(r) ==
    /\ agent[r].pc = "status"
    /\ sessions' = UpdateStatusRow(sessions, agent[r].session_id, "completed")
    /\ agent' = [agent EXCEPT ![r] = [@ EXCEPT !.pc = "done", !.ret = "True"]]
    /\ UNCHANGED <<rows, now, op>>
    /\ UNCHANGED <<analyzerVars, llmVars>>

\* A slip: the handler records the failure in the session.
AgentStoreErrorMarksSession(r) ==
    /\ agent[r].pc \in {SavePc(k) : k \in 1..4} \cup {"status"}
    /\ sessions' = UpdateStatusRow(sessions, agent[r].session_id, "error")
    /\ agent' = [agent EXCEPT ![r] = [@ EXCEPT !.pc = "done", !.error = "store", !.ret = "False"]]
    /\ UNCHANGED <<rows, now, op>>
    /\ UNCHANGED <<analyzerVars, llmVars>>

\* A slip: a failed store call is logged and the run goes on.
AgentStoreErrorAbsorbed(r) ==
    /\ agent[r].pc \in {SavePc(k) : k \in 1..4} \cup {"status"}
    /\ agent' = [agent EXCEPT ![r] =
                   IF @.pc = "status" THEN [@ EXCEPT !.pc = "done", !.error = "store", !.ret = "True"]
                   ELSE IF @.pc = SavePc(4) THEN [@ EXCEPT !.pc = "status", !.error = "store"]
                   ELSE [@ EXCEPT !.pc = SavePc((CHOOSE k \in 1..3 : SavePc(k) = @) + 1),
                                  !.error = "store"]]
    /\ UNCHANGED <<sessions, rows, now, op>>
    /\ UNCHANGED <<analyzerVars, llmVars>>

\* A store call of STEP 6 or 7 raises (sqlite3.Error) and leaves the database
\* as it was: caught by the handler at agent.py 122-124, which returns False.
AgentStoreError(r) ==
    /\ agent[r].pc \in {SavePc(k) : k \in 1..4} \cup {"status"}
    /\ agent' = [agent EXCEPT ![r] = [@ EXCEPT !.pc = "done", !.error = "store", !.ret = "False"]]
    /\ UNCHANGED <<sessions, rows, now, op>>
    /\ UNCHANGED <<analyzerVars, llmVars>>

\* run_analysis has returned; the Agent object is dropped (app.py 124-136).
AgentReturn(r) ==
    /\ agent[r].pc = "done"
    /\ agent' = [agent EXCEPT ![r] = IdleAgent]
    /\ UNCHANGED <<sessions, rows, now, op>>
    /\ UNCHANGED <<analyzerVars, llmVars>>

----------------------------------------------------------------------------
(* A DataAnalyzer object and its callers *)

\* The object columns of a DataFrame, by their numbers of distinct values: up
\* to MaxCategorical columns on either side of the limit of 15, or the single
\* column of 3 distinct values of the scenario of section 8.
CategoryLists == UNION {[1..k -> {15, 16}] : k \in 0..MaxCategorical} \cup {<<3>>}
\* Which render steps raise.  A step fails for a reason that lies in the chart
\* (a column matplotlib cannot plot, a name that is no path), so it is given
\* with the object and is the same in every analyze() call on it.
FailingSets == {{}} \cup {{x} : x \in ChartSlots}

\* DataAnalyzer(df, session_id) (analyzer.py 13-25): self.charts = [].
InitAnalyzer ==
    /\ sessions = [s \in SessionIds |-> NoSession]
    /\ rows = <<>>
    /\ now = 0
    /\ op = NoOp
    /\ agent = [r \in Runs |-> IdleAgent]
    /\ \E n \in 0..MaxNumeric, cats \in CategoryLists, other \in BOOLEAN,
          style \in {"plain", "spaced"} : df = BuildDf(n, cats, other, style)
    /\ MAX_CHARTS \in 0..MaxBudget
    /\ failing \in FailingSets
    /\ charts = <<>>
    /\ calls = 0
    /\ lastRun = NoRun
    /\ returned = NothingReturned
    /\ NoLLM

NextAnalyzer ==
    \/ Analyze
    \/ GetChartsInfo

SpecAnalyzer == InitAnalyzer /\ [][NextAnalyzer]_vars

----------------------------------------------------------------------------
(* The store and the orchestrator *)

Init ==
    /\ sessions = [s \in SessionIds |-> NoSession]
    /\ rows = <<>>
    /\ now = 0
    /\ op = NoOp
    /\ agent = [r \in Runs |-> IdleAgent]
    /\ NoAnalyzer
    /\ NoLLM

Next ==
    \/ \E s \in SessionIds : SaveUpload(s)
    \/ \E r \in Runs, s \in SessionIds : AgentInit(r, s)
    \/ \E r \in Runs : AgentLoad(r)
    \/ \E r \in Runs : AgentInsights(r)
    \/ \E r \in Runs : AgentSave(r)
    \/ \E r \in Runs : AgentComplete(r)
    \/ \E r \in Runs : AgentStoreError(r)
    \/ \E r \in Runs : AgentReturn(r)

Spec == Init /\ [][Next]_vars

----------------------------------------------------------------------------
(* Two start_analysis requests handled at once by the threaded server, each
   with its own Agent object *)

ConcurrentRuns == {"run1", "run2"}

InitConcurrent ==
    /\ sessions = [s \in SessionIds |-> NoSession]
    /\ rows = <<>>
    /\ now = 0
    /\ op = NoOp
    /\ agent = [r \in ConcurrentRuns |-> IdleAgent]
    /\ NoAnalyzer
    /\ NoLLM

NextConcurrent ==
    \/ \E s \in SessionIds : SaveUpload(s)
    \/ Tick
    \/ \E r \in ConcurrentRuns, s \in SessionIds : AgentInit(r, s)
    \/ \E r \in ConcurrentRuns : AgentLoad(r)
    \/ \E r \in ConcurrentRuns : AgentInsights(r)
    \/ \E r \in ConcurrentRuns : AgentSave(r)
    \/ \E r \in ConcurrentRuns : AgentComplete(r)
    \/ \E r \in ConcurrentRuns : AgentStoreError(r)

SpecConcurrent == InitConcurrent /\ [][NextConcurrent]_vars

----------------------------------------------------------------------------
(* The store alone, driven by any client *)

NextStore ==
    \/ \E s \in SessionIds, t \in ResultTypes, d \in DataVals : SaveAnalysisResult(s, t, d)
    \/ \E s \in SessionIds, t \in ResultTypes : GetAnalysisResult(s, t)
    \/ Tick

SpecStore == Init /\ [][NextStore]_vars

----------------------------------------------------------------------------
(* An LLMClient object and its callers *)

InitLLM ==
    /\ sessions = [s \in SessionIds |-> NoSession]
    /\ rows = <<>>
    /\ now = 0
    /\ op = NoOp
    /\ agent = [r \in Runs |-> IdleAgent]
    /\ NoAnalyzer
    /\ provider \in Providers
    /\ available = TRUE
    /\ llm = NoCall

NextLLM ==
    \/ GenerateInsights
    \/ GenerateExecutiveSummary
    \/ GenerateRecommendations
    \/ ExplainChart

SpecLLM == InitLLM /\ [][NextLLM]_vars

----------------------------------------------------------------------------
(* Claims about the result store *)

SavePcs == {SavePc(k) : k \in 1..4}

\* C1: get_analysis_result(s, t) returns the result_data of a row whose
\* created_at is the maximum among the rows of key (s, t), and returns None
\* exactly when no row has that key.
C1_GetReturnsMaxCreatedAt ==
    op.name = "get_analysis_result" =>
        LET m == MatchingRows(rows, op.session_id, op.result_type)
        IN /\ (op.value = None) <=> (m = {})
           /\ m # {} => \E i \in m : /\ rows[i].result_data = op.value
                                     /\ \A j \in m : rows[j].created_at <= rows[i].created_at

\* A read of a key that has rows of different created_at and different data.
C1_Witness ==
    /\ op.name = "get_analysis_result"
    /\ op.value # None
    /\ \E i, j \in MatchingRows(rows, op.session_id, op.result_type) :
          /\ rows[i].created_at < rows[j].created_at
          /\ rows[i].result_data # rows[j].result_data

\* C2: when two save_analysis_result calls for one key complete one after the
\* other, every later get_analysis_result of that key returns the data of the
\* later call (the row inserted last), also when both rows carry the same
\* created_at.
C2_ReadReturnsLastSaved ==
    op.name = "get_analysis_result" =>
        LET m == MatchingRows(rows, op.session_id, op.result_type)
        IN m # {} => op.value = rows[CHOOSE i \in m : \A j \in m : j <= i].result_data

\* C3: save_analysis_result is append-only.  Every step keeps the stored rows
\* as they are and adds at most one; a save_analysis_result call of the
\* orchestrator that returns adds exactly one row and leaves the sessions
\* table unchanged.
C3_AppendOnly ==
    [][/\ Len(rows) <= Len(rows') /\ Len(rows') <= Len(rows) + 1
       /\ SubSeq(rows', 1, Len(rows)) = rows
       /\ \A r \in Runs :
            (/\ agent[r].pc \in SavePcs
             /\ agent'[r].pc \in (SavePcs \cup {"status"}) \ {agent[r].pc})
                => (Len(rows') = Len(rows) + 1 /\ sessions' = sessions)]_vars

\* A re-run has saved a second profile of a session beside the first one.
C3_Witness ==
    \E i, j \in 1..Len(rows) :
        /\ i < j
        /\ rows[i].session_id = rows[j].session_id
        /\ rows[i].result_type = "profile" /\ rows[j].result_type = "profile"

----------------------------------------------------------------------------
(* Claims about the chart selector *)

Min2(a, b) == IF a < b THEN a ELSE b

\* The descriptors the last analyze() call appended to self.charts.
Appended == SubSeq(charts, lastRun.start + 1, Len(charts))
TypeCount(list, type) == Cardinality({i \in 1..Len(list) : list[i].type = type})
HasChart(list, type, cols) == \E i \in 1..Len(list) : list[i].type = type /\ list[i].columns = cols

\* What the selection policy of section 4.3 asks for, in closed form: the
\* render steps one analyze() call takes for columns d and budget max.
WantedHist(d, max) == Min2(Min2(HIST_COLS, Len(NumericCols(d))), max)
FewAmongFirst(cols, k) ==
    Cardinality({j \in 1..Min2(k, Min2(BAR_COLS, Len(cols))) : cols[j].nunique <= MAX_CATEGORIES})
WantedBars(d, cols, max) ==
    IF max > WantedHist(d, max) THEN Min2(FewAmongFirst(cols, BAR_COLS), max - WantedHist(d, max))
    ELSE 0
BarWanted(d, cols, k, max) ==
    /\ k <= BAR_COLS
    /\ cols[k].nunique <= MAX_CATEGORIES
    /\ WantedHist(d, max) + FewAmongFirst(cols, k - 1) < max
HeatmapWanted(d, max) ==
    /\ Len(NumericCols(d)) >= 2
    /\ WantedHist(d, max) + WantedBars(d, CategoricalCols(d), max) < max
BoxplotWanted(d, max) ==
    /\ Len(NumericCols(d)) >= 1
    /\ WantedHist(d, max) + WantedBars(d, CategoricalCols(d), max)
         + (IF HeatmapWanted(d, max) THEN 1 ELSE 0) < max
WantedSlots(d, max) ==
    {HistSlot(k) : k \in 1..WantedHist(d, max)}
      \cup {BarSlot(k) : k \in {j \in 1..Min2(BAR_COLS, Len(CategoricalCols(d))) :
                                  BarWanted(d, CategoricalCols(d), j, max)}}
      \cup (IF HeatmapWanted(d, max) THEN {"heatmap"} ELSE {})
      \cup (IF BoxplotWanted(d, max) THEN {"boxplot"} ELSE {})

AttemptedSlots == {lastRun.attempts[i].slot : i \in 1..Len(lastRun.attempts)}
Rank(type) == CASE type = "histogram" -> 1 [] type = "bar_chart" -> 2
                [] type = "heatmap" -> 3 [] type = "boxplot" -> 4
InPriorityOrder(list) == \A i, j \in 1..Len(list) : i < j => Rank(list[i].type) <= Rank(list[j].type)

\* C4: the DataAnalyzer never holds more than MAX_CHARTS chart descriptors,
\* neither in self.charts nor in a list analyze() or get_charts_info() returned.
C4_ChartCountWithinBudget ==
    /\ Len(charts) <= MAX_CHARTS
    /\ Len(returned.list) <= MAX_CHARTS

\* C5 as claimed: after analyze(), a non-numeric column of more than 15
\* distinct values has no bar chart; one of at most 15 that is among the first
\* 2 non-numeric columns and is reached with budget left has a bar chart; a
\* non-numeric column after the first 2 has none.
C5_BarChartForEveryNonNumericColumn ==
    calls >= 1 =>
        LET cols == SelectSeq(df, IsNotNumber)
        IN \A k \in 1..Len(cols) :
              /\ cols[k].nunique > MAX_CATEGORIES => ~HasChart(charts, "bar_chart", <<cols[k].name>>)
              /\ k > BAR_COLS => ~HasChart(charts, "bar_chart", <<cols[k].name>>)
              /\ BarWanted(df, cols, k, MAX_CHARTS) => HasChart(charts, "bar_chart", <<cols[k].name>>)

\* C5 as amended: an analyze() call appends a bar chart of a column exactly
\* when the column has object dtype, is among the first 2 object columns, has
\* at most 15 distinct values, is reached with budget left, and its render
\* succeeds.  A column of more than 15 distinct values is not replaced by a
\* later one, and a non-numeric column of another dtype gets no bar chart.
C5_BarChartIffObjectColumnWanted ==
    calls >= 1 =>
        /\ \A k \in 1..Len(CategoricalCols(df)) :
              HasChart(Appended, "bar_chart", <<CategoricalCols(df)[k].name>>)
                <=> (BarWanted(df, CategoricalCols(df), k, MAX_CHARTS) /\ BarSlot(k) \notin failing)
        /\ \A i \in 1..Len(df) :
              ~IsObject(df[i]) => ~HasChart(charts, "bar_chart", <<df[i].name>>)

\* The first object column has 16 distinct values and is skipped, the second
\* has 15 and is charted, the third has 15 and is not.
C5_Witness ==
    /\ calls >= 1
    /\ Len(CategoricalCols(df)) = 3
    /\ CategoricalCols(df)[1].nunique = 16
    /\ CategoricalCols(df)[2].nunique = 15
    /\ CategoricalCols(df)[3].nunique = 15
    /\ HasChart(Appended, "bar_chart", <<CategoricalCols(df)[2].name>>)
    /\ ~HasChart(Appended, "bar_chart", <<CategoricalCols(df)[3].name>>)
    /\ TypeCount(Appended, "bar_chart") = 1

\* C6 as claimed: the list analyze() returns contains a heatmap iff there are
\* at least 2 numeric columns and budget is left at the heatmap step, and it
\* never contains more than one heatmap.
C6_HeatmapIffTwoNumericAndBudget ==
    returned.by = "analyze" =>
        /\ (TypeCount(returned.list, "heatmap") >= 1) <=> HeatmapWanted(df, MAX_CHARTS)
        /\ TypeCount(returned.list, "heatmap") <= 1

\* C6 as amended: an analyze() call appends a heatmap iff there are at least
\* 2 numeric columns, budget is left at the heatmap step and the heatmap
\* render succeeds; it appends at most one.
C6_HeatmapIffWantedAndRendered ==
    calls >= 1 =>
        /\ (TypeCount(Appended, "heatmap") >= 1)
              <=> (HeatmapWanted(df, MAX_CHARTS) /\ "heatmap" \notin failing)
        /\ TypeCount(Appended, "heatmap") <= 1

\* A heatmap was appended after histograms and a bar chart, with the budget
\* used up by it.
C6_Witness ==
    /\ calls >= 1
    /\ TypeCount(Appended, "heatmap") = 1
    /\ TypeCount(Appended, "bar_chart") >= 1
    /\ TypeCount(Appended, "boxplot") = 0
    /\ Len(lastRun.attempts) = MAX_CHARTS

\* The dataset of the scenario: 4 numeric columns and 1 categorical column of
\* few distinct values.
Scenario ==
    /\ Len(df) = 5
    /\ Len(NumericCols(df)) = 4
    /\ Len(CategoricalCols(df)) = 1
    /\ CategoricalCols(df)[1].nunique <= MAX_CATEGORIES
ScenarioCharts ==
    LET n == NumericCols(df)
    IN << [type |-> "histogram", columns |-> <<n[1].name>>],
          [type |-> "histogram", columns |-> <<n[2].name>>],
          [type |-> "histogram", columns |-> <<n[3].name>>],
          [type |-> "bar_chart", columns |-> <<CategoricalCols(df)[1].name>>],
          [type |-> "heatmap", columns |-> ColNames(n)],
          [type |-> "boxplot", columns |-> ColNames(Take(n, BOX_COLS))] >>
TypesAndColumns(list) == [i \in 1..Len(list) |-> [type |-> list[i].type, columns |-> list[i].columns]]

\* The histograms of a list are those of the first numeric columns, in order.
HistogramsInColumnOrder(list) ==
    LET h == SelectSeq(list, LAMBDA c : c.type = "histogram")
    IN /\ Len(h) <= Min2(HIST_COLS, Len(NumericCols(df)))
       /\ \A i, j \in 1..Len(h) : i < j =>
             \E a, b \in 1..Min2(HIST_COLS, Len(NumericCols(df))) :
                 /\ a < b
                 /\ h[i].columns = <<NumericCols(df)[a].name>>
                 /\ h[j].columns = <<NumericCols(df)[b].name>>

C8_RenderFailureIsLocal ==
    calls >= 1 =>
        /\ AttemptedSlots = WantedSlots(df, MAX_CHARTS)
        /\ Len(lastRun.attempts) = Cardinality(AttemptedSlots)
        /\ TypesAndColumns(Appended)
             = TypesAndColumns(SelectSeq(lastRun.attempts, LAMBDA a : a.ok))

\* The first histogram failed to render, and a bar chart, the heatmap and the
\* box plot were rendered after it.
C8_Witness ==
    /\ calls >= 1
    /\ failing = {"hist1"}
    /\ "hist1" \in AttemptedSlots
    /\ TypeCount(Appended, "bar_chart") >= 1
    /\ TypeCount(Appended, "heatmap") = 1
    /\ TypeCount(Appended, "boxplot") = 1

\* C9: within one analyze() run two different charts (another type or another
\* column) are written to different files, and a chart of the same type and
\* columns always gets the same filename.
C9_FilenamesCollisionFree ==
    /\ \A i, j \in 1..Len(Appended) :
          (Appended[i].type # Appended[j].type \/ Appended[i].columns # Appended[j].columns)
              => Appended[i].filename # Appended[j].filename
    /\ \A i, j \in 1..Len(charts) :
          (charts[i].type = charts[j].type /\ charts[i].columns = charts[j].columns)
              => charts[i].filename = charts[j].filename

----------------------------------------------------------------------------
(* Claims about the insight client *)

\* C10: every high-level call returns non-empty text, whatever the outcome of
\* the request: the text of the model, or the fallback of the function.
C10_AlwaysNonEmptyText ==
    llm.fn # "none" =>
        /\ llm.result.kind = "str"
        /\ llm.result.chars # <<>>
        /\ ~Truthy(MakeRequest(provider, llm.outcome)) => llm.result = Fallback(llm.fn, llm.arg)

----------------------------------------------------------------------------
(* Claims about the orchestrator *)

\* The session a step of run r works on.
SessionOf(r) == agent[r].session_id
\* The rows of a session, in insertion order.
RowsOf(rs, s) == SelectSeq(rs, LAMBDA row : row.session_id = s)
\* The row of key (s, t) inserted last.
LastRow(s, t) == rows[CHOOSE i \in MatchingRows(rows, s, t) : \A j \in MatchingRows(rows, s, t) : j <= i]
HasAllResults(s) == \A t \in ResultTypes : MatchingRows(rows, s, t) # {}

\* C11: a run whose dataset cannot be loaded or is empty ends at STEP 1.  It
\* has made no request to the endpoint and holds no insights, the step that
\* fails and every step of the run before it leave analysis_results and
\* sessions as they are, and run_analysis returns False; a frame that is
\* profiled has at least one row and one column.
C11_LoadFailureAbortsRun ==
    /\ [](\A r \in DOMAIN agent :
            /\ agent[r].error = "load" =>
                  /\ agent[r].pc = "done" /\ agent[r].ret = "False"
                  /\ agent[r].loads = 1 /\ agent[r].requests = 0
                  /\ agent[r].endpoint = "none" /\ agent[r].insights = None
                  /\ ~agent[r].profile.computed
            /\ agent[r].profile.computed =>
                  agent[r].profile.total_rows > 0 /\ agent[r].profile.total_columns > 0)
    /\ [][\A r \in DOMAIN agent :
            (agent[r].pc \in {"idle", "load"} /\ agent'[r] # agent[r])
                => (rows' = rows /\ sessions' = sessions)]_vars

\* A re-run of a completed session fails to load: the four rows of the first
\* run are all there is, and the session is still completed.
C11_Witness ==
    \E r \in DOMAIN agent :
        /\ agent[r].error = "load"
        /\ sessions[SessionOf(r)] = "completed"
        /\ Len(RowsOf(rows, SessionOf(r))) = 4

\* C12: an endpoint failure (an exception of the request, or a status other
\* than 200) does not end the run.  generate_insights has made its request and
\* returned the fixed fallback text; the run fails only if a store call
\* raises, and otherwise returns True with the session completed, a row of
\* each of the four result types, and the fallback text in the insights row
\* and in the report it saved.
C12_EndpointFailureIsNotFatal ==
    \A r \in DOMAIN agent :
        agent[r].endpoint = "failed" =>
            /\ agent[r].insights = FallbackInsights
            /\ agent[r].requests = 1
            /\ agent[r].error # "load"
            /\ agent[r].ret = "False" => agent[r].error = "store"
            /\ (agent[r].pc = "done" /\ agent[r].error = "none") =>
                  /\ agent[r].ret = "True"
                  /\ sessions[SessionOf(r)] = "completed"
                  /\ HasAllResults(SessionOf(r))
                  /\ LastRow(SessionOf(r), "insights").result_data = FallbackInsights
                  /\ LastRow(SessionOf(r), "report").result_data = "report_with_fallback"

\* The endpoint failed and the run completed the session with its four rows.
C12_Witness ==
    \E r \in DOMAIN agent :
        /\ agent[r].endpoint = "failed"
        /\ agent[r].ret = "True"
        /\ sessions[SessionOf(r)] = "completed"
        /\ Len(rows) = 4

\* C13: the orchestrator writes no status but 'completed'.  A session is
\* absent, 'uploaded' or 'completed'; a status changes only when the upload
\* creates the session as 'uploaded' or when a run on it, past its four saves,
\* sets 'completed' and returns True, so a run that returns False has left
\* every status as it was and a completed session stays completed.
C13_OnlyCompletedIsWritten ==
    /\ [](\A s \in SessionIds : sessions[s] \in {NoSession, "uploaded", "completed"})
    /\ [][\A s \in SessionIds :
            sessions'[s] # sessions[s] =>
                \/ sessions[s] = NoSession /\ sessions'[s] = "uploaded" /\ agent' = agent
                \/ /\ sessions'[s] = "completed"
                   /\ \E r \in DOMAIN agent :
                         /\ agent[r].pc = "status" /\ SessionOf(r) = s
                         /\ agent'[r].ret = "True" /\ agent'[r].error = "none"]_vars
    /\ [](\A r \in DOMAIN agent :
            /\ agent[r].ret = "False" => agent[r].error \in {"load", "store"}
            /\ agent[r].ret = "True" => sessions[SessionOf(r)] = "completed")

\* A run on a completed session failed at a store call after it had saved a
\* second profile; the session is still completed.
C13_Witness ==
    \E r \in DOMAIN agent :
        /\ agent[r].ret = "False"
        /\ agent[r].error = "store"
        /\ sessions[SessionOf(r)] = "completed"
        /\ Len(RowsOf(rows, SessionOf(r))) = 5
        /\ \E s \in SessionIds : sessions[s] = "uploaded"

Abs(x) == IF x < 0 THEN 0 - x ELSE x

\* C14: the completeness_score of a profile, in hundredths, is the hundredth
\* nearest to (1 - missing_cells / total_cells) * 100 (the even one of two
\* equally near), where total_cells = total_rows * total_columns > 0; it lies
\* between 0 and 100; it is 98.0 for 10 missing cells out of 500; and the
\* expression yields 0 for a frame of no cells.
C14_CompletenessScore ==
    /\ \A r \in DOMAIN agent :
          agent[r].profile.computed =>
              LET p == agent[r].profile
                  total_cells == p.total_rows * p.total_columns
                  exact == (total_cells - p.missing_cells) * 10000
              IN /\ total_cells > 0
                 /\ 2 * Abs(p.completeness_score * total_cells - exact) <= total_cells
                 /\ 2 * Abs(p.completeness_score * total_cells - exact) = total_cells
                       => p.completeness_score % 2 = 0
                 /\ 0 <= p.completeness_score /\ p.completeness_score <= 10000
                 /\ (total_cells = 500 /\ p.missing_cells = 10) => p.completeness_score = 9800
    /\ \A d \in DataFrames :
          IsEmpty(d) => CompletenessScore(d.total_rows, d.total_columns, d.missing_cells) = 0

\* The profile of the scenario dataset: 100 rows, 5 columns, 10 missing cells.
C14_Witness ==
    \E r \in DOMAIN agent :
        /\ agent[r].profile.computed
        /\ agent[r].profile.total_rows = 100 /\ agent[r].profile.total_columns = 5
        /\ agent[r].profile.missing_cells = 10
        /\ agent[r].profile.completeness_score = 9800

\* C15: runs on different sessions do not interfere.  A step of a run leaves
\* the status and the rows of every other session as they are; what
\* get_analysis_result can return for a session is what it returns from the
\* rows of that session alone; and a session that one run alone works on
\* holds the rows of that run, in its save order and with its data, and is
\* completed exactly when that run has returned True.  A session no run works
\* on has no rows and is not completed.
C15_SessionsDoNotInterfere ==
    /\ [][\A r \in DOMAIN agent :
            agent'[r] # agent[r] =>
                /\ \A b \in SessionIds \ {agent'[r].session_id} : sessions'[b] = sessions[b]
                /\ \/ rows' = rows
                   \/ /\ rows' = Append(rows, rows'[Len(rows')])
                      /\ rows'[Len(rows')].session_id = agent'[r].session_id]_vars
    /\ [](\A s \in SessionIds :
            LET mine == RowsOf(rows, s)
                here == {r \in DOMAIN agent : SessionOf(r) = s}
            IN /\ \A t \in ResultTypes :
                     GetAnalysisResultValues(rows, s, t) = GetAnalysisResultValues(mine, s, t)
               /\ here = {} => (mine = <<>> /\ sessions[s] # "completed")
               /\ \A r \in here :
                     here = {r} =>
                         /\ Len(mine) <= 4
                         /\ \A i \in 1..Len(mine) :
                               /\ mine[i].result_type = SaveSteps[i]
                               /\ mine[i].result_data = AgentResultData(agent[r], SaveSteps[i])
                         /\ sessions[s] = "completed" <=> agent[r].ret = "True"
                         /\ agent[r].ret = "True" => Len(mine) = 4)

\* Two runs on different sessions whose saves interleave; one of them has
\* completed its session, the other holds other insights.
C15_Witness ==
    \E r, q \in DOMAIN agent :
        /\ SessionOf(r) \in SessionIds /\ SessionOf(q) \in SessionIds
        /\ SessionOf(r) # SessionOf(q)
        /\ agent[r].ret = "True"
        /\ agent[q].insights \notin {None, agent[r].insights}
        /\ \E i, j, k \in 1..Len(rows) :
              /\ i < j /\ j < k
              /\ rows[i].session_id = SessionOf(r)
              /\ rows[j].session_id = SessionOf(q)
              /\ rows[k].session_id = SessionOf(r)

\* C16: a store failure inside run_analysis aborts the run and is reported to
\* the caller as failure.  The call that fails is a save_analysis_result or the
\* update_session_status, it leaves the database as it was, the run is over
\* with False, and once over the run writes nothing more; the results saved
\* before the failure stay.
C16_StoreFailureAbortsRun ==
    /\ [](\A r \in DOMAIN agent :
            agent[r].error = "store" => (agent[r].pc = "done" /\ agent[r].ret = "False"))
    /\ [][\A r \in DOMAIN agent :
            /\ (agent'[r].error = "store" /\ agent[r].error # "store") =>
                  /\ agent[r].pc \in SavePcs \cup {"status"}
                  /\ rows' = rows /\ sessions' = sessions
            /\ agent[r].pc = "done" =>
                  /\ agent'[r] \in {agent[r], IdleAgent}
                  /\ agent'[r] # agent[r] => (rows' = rows /\ sessions' = sessions)]_vars

\* The save of the insights failed after the profile and the charts were
\* saved: the two rows are kept and the session is still 'uploaded'.
C16_Witness ==
    \E r \in DOMAIN agent :
        /\ agent[r].error = "store"
        /\ agent[r].ret = "False"
        /\ Len(RowsOf(rows, SessionOf(r))) = 2
        /\ RowsOf(rows, SessionOf(r))[2].result_type = "charts"
        /\ sessions[SessionOf(r)] = "uploaded"

\* C17: a run saves profile, charts, insights, report in this order and sets
\* 'completed' after the four saves.  A row is added only by a run at a save
\* step, with the result type of that step and the session of the run; a run
\* at a save step has saved the types before it, and one at the status step
\* or returned with True all four; a completed session has a row of each of
\* the four types; every charts row holds the empty list.
C17_CompletedHasAllResults ==
    /\ [](/\ \A s \in SessionIds : sessions[s] = "completed" => HasAllResults(s)
          /\ \A i \in 1..Len(rows) : rows[i].result_type = "charts" => rows[i].result_data = "[]"
          /\ \A r \in DOMAIN agent :
                /\ \A k \in 1..4 : agent[r].pc = SavePc(k) =>
                      \A j \in 1..(k - 1) : MatchingRows(rows, SessionOf(r), SaveSteps[j]) # {}
                /\ (agent[r].pc = "status" \/ agent[r].ret = "True") => HasAllResults(SessionOf(r)))
    /\ [][/\ rows' # rows =>
                \E r \in DOMAIN agent, k \in 1..4 :
                    /\ agent[r].pc = SavePc(k)
                    /\ agent'[r].pc = (IF k < 4 THEN SavePc(k + 1) ELSE "status")
                    /\ rows' = Append(rows, rows'[Len(rows')])
                    /\ rows'[Len(rows')].result_type = SaveSteps[k]
                    /\ rows'[Len(rows')].session_id = SessionOf(r)
          /\ \A s \in SessionIds :
                (sessions[s] # "completed" /\ sessions'[s] = "completed") =>
                    \E r \in DOMAIN agent : agent[r].pc = "status" /\ SessionOf(r) = s]_vars

\* Two runs on one session: one has completed it, the other saved a profile
\* of its own and then failed at a store call.
C17_Witness ==
    \E r, q \in DOMAIN agent :
        /\ r # q
        /\ SessionOf(r) = SessionOf(q)
        /\ agent[r].ret = "True"
        /\ agent[q].ret = "False" /\ agent[q].error = "store"
        /\ sessions[SessionOf(r)] = "completed"
        /\ Cardinality(MatchingRows(rows, SessionOf(r), "profile")) = 2
        /\ Cardinality(MatchingRows(rows, SessionOf(r), "report")) = 1

\* C18: nothing is retried.  A call of generate_insights,
\* generate_executive_summary, generate_recommendations or explain_chart makes
\* one request when the client is available and none otherwise, whatever the
\* outcome of the request; a run_analysis makes at most one load_dataframe
\* call and at most one request: none before the load, one load and no
\* request when the load fails, one of each from the insight step on.
C18_NoRetry ==
    /\ \A fn \in LLMFunctions, p \in Providers, avail \in BOOLEAN, o \in Outcomes :
          \A arg \in (IF fn = "explain_chart" THEN ChartDescriptions ELSE {NoArg}) :
              Generate(fn, arg, p, avail, o).requests = (IF avail THEN 1 ELSE 0)
    /\ \A r \in DOMAIN agent :
          /\ agent[r].loads <= 1 /\ agent[r].requests <= 1
          /\ agent[r].pc \in {"idle", "load"} => (agent[r].loads = 0 /\ agent[r].requests = 0)
          /\ agent[r].pc = "insights" => (agent[r].loads = 1 /\ agent[r].requests = 0)
          /\ agent[r].error = "load" => (agent[r].loads = 1 /\ agent[r].requests = 0)
          /\ agent[r].endpoint # "none" => (agent[r].loads = 1 /\ agent[r].requests = 1)

\* A run whose request failed went on with the fallback and was then aborted
\* by a store failure: one load and one request were made.
C18_Witness ==
    \E r \in DOMAIN agent :
        /\ agent[r].pc = "done"
        /\ agent[r].endpoint = "failed"
        /\ agent[r].error = "store"
        /\ agent[r].loads = 1 /\ agent[r].requests = 1

====
